---- MODULE Spec2Model ----
(***************************************************************************)
(* distributed-dig: the resolution engine.                                 *)
(*                                                                         *)
(*   src/unnamed/part_000  resolve(), parseAnswer()  (the core module)     *)
(*   src/ddig.js           resolveDomain(), resolveBulk()                  *)
(*                                                                         *)
(* JavaScript runs every function body and every event handler to          *)
(* completion, so each of them is one action.  The DNS transport           *)
(* (native-dns-multisocket) is the environment: for a request that was     *)
(* sent it emits 'timeout' and 'message' events, in any order and number   *)
(* up to MaxEvents.  A JavaScript string is a TLA+ string, '' is "" and    *)
(* String.prototype.concat is \o.                                          *)
(***************************************************************************)
EXTENDS Integers, Sequences, FiniteSets, TLC

\* ---------------------------------------------------------------- bounds
MaxTime == 1
MaxEvents == 2
MaxLen == 2
MaxDomains == 2
MaxResolvers == 3

\* ------------------------------------------------------ values and inputs
\* the JavaScript value null, as stored in a field that may also hold a string
null == "<null>"

\* the value undefined where an object is expected
undefined == [undefined |-> TRUE]

\* the value null where an answer record is expected
nullRecord == [isNull |-> TRUE]

\* os.EOL
EOL == "\n"

Domains == {"example.com", "a.test"}

Resolvers ==
    { [nameServer |-> "8.8.8.8", provider |-> "Google"],
      [nameServer |-> "::1",     provider |-> "Local"],
      [nameServer |-> "8.8.8",   provider |-> "Typo"] }

\* is-ip: true exactly for a syntactically valid IPv4 or IPv6 literal
isIp(s) == s \in {"8.8.8.8", "::1"}

\* answer records as the transport delivers them: {name, data?, address?}
Records ==
    { [name |-> "www", data |-> "cdn"],
      [name |-> "cdn", address |-> "1.1.1.1"] }

\* answers whose last record is null
MalformedAnswers ==
    { <<nullRecord>>, <<[name |-> "www", data |-> "cdn"], nullRecord>> }

Answers == UNION { [1..n -> Records] : n \in 0..MaxLen } \cup MalformedAnswers

\* error details the transport hands to the message handler (truthy values)
Errs == {"ENOTFOUND"}

\* the transport's events; err = null is "no error"; isArray tells whether
\* answer.answer is an array
TimeoutEvent == [type |-> "timeout", err |-> null, isArray |-> FALSE, answer |-> <<>>]

MessageEvents ==
    { [type |-> "message", err |-> e, isArray |-> FALSE, answer |-> <<>>] : e \in Errs }
    \cup { [type |-> "message", err |-> null, isArray |-> TRUE, answer |-> a] : a \in Answers }
    \cup { [type |-> "message", err |-> null, isArray |-> FALSE, answer |-> <<>>] }

\* Object.prototype.hasOwnProperty.call(a, k)
hasOwnProperty(a, k) == k \in DOMAIN a

\* ------------------------------------------------------- JSON.stringify
StringifyValue(s) == "\"" \o s \o "\""

StringifyRecord(a) ==
    IF a = nullRecord THEN "null" ELSE
    "{\"name\":" \o StringifyValue(a.name)
    \o (IF hasOwnProperty(a, "data") THEN ",\"data\":" \o StringifyValue(a.data) ELSE "")
    \o (IF hasOwnProperty(a, "address") THEN ",\"address\":" \o StringifyValue(a.address) ELSE "")
    \o "}"

RECURSIVE StringifyItems(_)
StringifyItems(s) ==
    IF Len(s) = 0 THEN ""
    ELSE IF Len(s) = 1 THEN StringifyRecord(s[1])
    ELSE StringifyRecord(s[1]) \o "," \o StringifyItems(Tail(s))

StringifyArray(s) == "[" \o StringifyItems(s) \o "]"

\* ---------------------------------------------------------- parseAnswer
\* the options object of parseAnswer; NullOptions is null, NoMode is {}
GetIpAddress == [isNull |-> FALSE, getIpAddress |-> TRUE, getRecursion |-> FALSE]
GetRecursion == [isNull |-> FALSE, getIpAddress |-> FALSE, getRecursion |-> TRUE]
NullOptions == [isNull |-> TRUE, getIpAddress |-> FALSE, getRecursion |-> FALSE]
NoMode == [isNull |-> FALSE, getIpAddress |-> FALSE, getRecursion |-> FALSE]

\* the values passed as `answer`: an array of items, null or undefined
\* ("nullish"), or a value without a length such as a number or {}
ArrayValue(items) == [kind |-> "array", items |-> items]
NullishValue == [kind |-> "nullish", items |-> <<>>]
PlainValue == [kind |-> "plain", items |-> <<>>]

\* the TypeError a property read of null or undefined throws inside the try
Thrown == "<TypeError>"

\* answer === [] compares the argument with a freshly created array object
IsFreshArrayLiteral(answer) == FALSE

\* the items answer[0..answer.length-1] the for loops visit
LoopItems(answer) == IF answer.kind = "array" THEN answer.items ELSE <<>>

\* the scan, had it kept the first address it finds
RECURSIVE ScanAddress_first(_, _)
ScanAddress_first(answer, response) ==
    IF Len(answer) = 0 THEN response
    ELSE IF answer[1] = nullRecord THEN Thrown
    ELSE ScanAddress_first(Tail(answer),
                     IF hasOwnProperty(answer[1], "address") /\ response = ""
                     THEN answer[1].address ELSE response)

\* the scan of lines 134-138: the address of the last record that has one;
\* hasOwnProperty.call() throws on a null record
RECURSIVE ScanAddress(_, _)
ScanAddress(answer, response) ==
    IF Len(answer) = 0 THEN response
    ELSE IF answer[1] = nullRecord THEN Thrown
    ELSE ScanAddress(Tail(answer),
                     IF hasOwnProperty(answer[1], "address")
                     THEN answer[1].address ELSE response)

\* the scan, had it tested the address property before the data property
RECURSIVE ScanRecursion_addressFirst(_, _)
ScanRecursion_addressFirst(answer, response) ==
    IF Len(answer) = 0 THEN response
    ELSE IF answer[1] = nullRecord THEN Thrown
    ELSE ScanRecursion_addressFirst(Tail(answer),
            IF hasOwnProperty(answer[1], "address")
            THEN response \o answer[1].name \o " --> " \o answer[1].address \o EOL
            ELSE IF hasOwnProperty(answer[1], "data")
            THEN response \o answer[1].name \o " --> " \o answer[1].data \o EOL
            ELSE response)

\* the scan of lines 141-151: one line per record with data or address
RECURSIVE ScanRecursion(_, _)
ScanRecursion(answer, response) ==
    IF Len(answer) = 0 THEN response
    ELSE IF answer[1] = nullRecord THEN Thrown
    ELSE ScanRecursion(Tail(answer),
            IF hasOwnProperty(answer[1], "data")
            THEN response \o answer[1].name \o " --> " \o answer[1].data \o EOL
            ELSE IF hasOwnProperty(answer[1], "address")
            THEN response \o answer[1].name \o " --> " \o answer[1].address \o EOL
            ELSE response)

\* lines 131-155: the body of the try
parseAnswerTry(answer, options) ==
    IF options = undefined THEN Thrown
    ELSE IF options.isNull \/ options.getIpAddress
    THEN IF answer.kind = "nullish" THEN Thrown
         ELSE ScanAddress(LoopItems(answer), "")
    ELSE IF options.getRecursion
    THEN IF answer.kind = "nullish" THEN Thrown
         ELSE ScanRecursion(LoopItems(answer), "")
    ELSE ""

\* parseAnswer(), had it no try/catch around the scan
parseAnswer_noCatch(answer, options) ==
    IF IsFreshArrayLiteral(answer) THEN "no_address"
    ELSE parseAnswerTry(answer, options)

\* lines 122-161
parseAnswer(answer, options) ==
    IF IsFreshArrayLiteral(answer) THEN "no_address"
    ELSE IF parseAnswerTry(answer, options) = Thrown THEN "error parsing answer"
    ELSE parseAnswerTry(answer, options)

\* ------------------------------------------------------------------ state
VARIABLES
    now,            \* the wall clock read by moment(), in ms since the caller's call
    entry,          \* the exported function the caller has called, "none" before
    call,           \* resolve(): the closure (domain, resolver, startTime), <<>> before the call
    lookupResult,   \* resolve(): the lookupResult object, <<>> before the call
    sent,           \* resolve(): the requests handed to req.send()
    listening,      \* resolve(): the events of req that have a handler
    events,         \* resolve(): the events the transport has emitted on req
    delivered,      \* resolve(): the argument of each callback() call, as seen then
    bulk,           \* resolveBulk(): the call (domains, resolvers, startTime, status), <<>> before
    response,       \* resolveBulk(): the response object, <<>> before the call
    bulkDelivered,  \* resolveBulk(): the argument of each callback() call, as seen then
    pendingAtCallback, \* resolveBulk(): per callback() call, the requests without an event then
    closures,       \* resolveDomain(): one closure (domain, resolvers, index) per call
    dreqs,          \* resolveDomain(): the requests handed to req.send()
    devents,        \* resolveDomain(): the events the transport has emitted on them
    uncaught,       \* exceptions thrown by a handler of resolveDomain() and caught by nobody
    parsed,         \* parseAnswer(): the call (answer, options, result), <<>> before the call
    addresses,      \* isAddressUnique.addresses
    passed,         \* isAddressUnique(): the addresses passed by the calls so far
    lastUnique      \* isAddressUnique(): the last call (ipAddress, result), <<>> before any

coreVars == <<call, lookupResult, sent, listening, events, delivered>>

bulkVars == <<bulk, response, bulkDelivered, pendingAtCallback>>

domainVars == <<closures, dreqs, devents, uncaught>>

utilVars == <<parsed, addresses, passed, lastUnique>>

vars == <<now, entry, coreVars, bulkVars, domainVars, utilVars>>

\* ------------------------------------------------------------- resolve()
\* lines 23-34
NewLookupResult(domain, resolver) ==
    [domain |-> domain, ipAddress |-> null, recursion |-> null, answer |-> null,
     nameServer |-> resolver.nameServer, provider |-> resolver.provider,
     msg |-> "", success |-> FALSE, duration |-> 0, error |-> ""]

\* lines 52-62: the request built for (domain, resolver)
Request(domain, resolver) == [name |-> domain, address |-> resolver.nameServer]

\* lines 19-120; dt is the time the body takes
resolve(domain, resolver, dt) ==
    /\ entry = "none"
    /\ entry' = "resolve"
    /\ now' = now + dt
    /\ call' = <<[domain |-> domain, resolver |-> resolver, startTime |-> now]>>
    /\ IF isIp(resolver.nameServer) = FALSE
       THEN /\ lookupResult' = <<[NewLookupResult(domain, resolver) EXCEPT
                                    !.success = FALSE,
                                    !.duration = now' - now,
                                    !.msg = "Invalid resolver IP address"]>>
            /\ UNCHANGED <<sent, listening>>
       ELSE /\ lookupResult' = <<NewLookupResult(domain, resolver)>>
            /\ sent' = Append(sent, Request(domain, resolver))
            /\ listening' = {"timeout", "message"}
    /\ UNCHANGED <<events, delivered, bulkVars, domainVars, utilVars>>

\* lines 70-79: the handler of 'timeout'
OnTimeout(r, startTime) ==
    [r EXCEPT !.msg = "Timeout", !.success = FALSE, !.duration = now - startTime]

\* lines 82-118: the handler of 'message'
OnMessage(r, startTime, err, isArray, answer) ==
    IF err # null
    THEN [r EXCEPT !.msg = "An error occurred",
                   !.error = StringifyValue(err),
                   !.success = FALSE,
                   !.duration = now - startTime]
    ELSE IF isArray /\ Len(answer) # 0
    THEN [r EXCEPT !.answer = StringifyArray(answer),
                   !.ipAddress = parseAnswer(ArrayValue(answer), GetIpAddress),
                   !.recursion = parseAnswer(ArrayValue(answer), GetRecursion),
                   !.msg = "Success",
                   !.success = TRUE,
                   !.duration = now - startTime]
    ELSE [r EXCEPT !.msg = "Non-Existent Domain",
                   !.error = "NXDomain",
                   !.success = FALSE,
                   !.duration = now - startTime]

\* the timeout handler, had it sent the request again
timeout_retry ==
    /\ "timeout" \in listening
    /\ Len(events) < MaxEvents
    /\ events' = Append(events, TimeoutEvent)
    /\ lookupResult' = <<OnTimeout(lookupResult[1], call[1].startTime)>>
    /\ delivered' = Append(delivered, lookupResult'[1])
    /\ sent' = Append(sent, sent[1])
    /\ UNCHANGED <<now, entry, call, listening, bulkVars, domainVars, utilVars>>

\* the transport emits 'timeout' on req
timeout ==
    /\ "timeout" \in listening
    /\ Len(events) < MaxEvents
    /\ events' = Append(events, TimeoutEvent)
    /\ lookupResult' = <<OnTimeout(lookupResult[1], call[1].startTime)>>
    /\ delivered' = Append(delivered, lookupResult'[1])
    /\ UNCHANGED <<now, entry, call, sent, listening, bulkVars, domainVars, utilVars>>

\* the transport emits 'message' on req
message(ev) ==
    /\ "message" \in listening
    /\ Len(events) < MaxEvents
    /\ events' = Append(events, ev)
    /\ lookupResult' = <<OnMessage(lookupResult[1], call[1].startTime,
                                   ev.err, ev.isArray, ev.answer)>>
    /\ delivered' = Append(delivered, lookupResult'[1])
    /\ UNCHANGED <<now, entry, call, sent, listening, bulkVars, domainVars, utilVars>>

\* ----------------------------------------------------------- src/ddig.js
\* the properties of the object the identifier `exports` is bound to in
\* ddig.js: line 27 binds module.exports to a new object, and no line gives
\* the object still bound to `exports` a property
exportsObject == {}

\* resolvers[index] of a JavaScript array
ResolverAt(resolvers, index) ==
    IF index \in 0..(Len(resolvers) - 1) THEN resolvers[index + 1] ELSE undefined

\* the loop, had an invalid resolver ended it
RECURSIVE resolveDomainLoop_fatal(_, _, _, _)
resolveDomainLoop_fatal(domain, resolvers, index, c) ==
    IF ~(index < Len(resolvers)) THEN <<>>
    ELSE IF isIp(ResolverAt(resolvers, index).nameServer) = FALSE THEN <<>>
    ELSE <<[req |-> Request(domain, ResolverAt(resolvers, index)),
            sentFor |-> index, closure |-> c]>>
         \o resolveDomainLoop_fatal(domain, resolvers, index + 1, c)

\* lines 34-95: the loop from `index` on; the requests it sends, in order,
\* each with the closure c whose variables its handlers read
RECURSIVE resolveDomainLoop(_, _, _, _)
resolveDomainLoop(domain, resolvers, index, c) ==
    IF ~(index < Len(resolvers)) THEN <<>>
    ELSE (IF isIp(ResolverAt(resolvers, index).nameServer) = FALSE
          THEN <<>>
          ELSE <<[req |-> Request(domain, ResolverAt(resolvers, index)),
                  sentFor |-> index, closure |-> c]>>)
         \o resolveDomainLoop(domain, resolvers, index + 1, c)

\* the closure resolveDomain() leaves behind: `var index` is one variable,
\* shared by all handlers, and holds resolvers.length when the loop has ended
resolveDomainClosure(domain, resolvers) ==
    [domain |-> domain, resolvers |-> resolvers, index |-> Len(resolvers)]

\* lines 30-96: the function body has no return statement
resolveDomainReturn(domain, resolvers) == undefined

\* resolveDomain(), had it sent one request and waited for its event
resolveDomain_serial(domain, resolvers) ==
    /\ entry = "none"
    /\ entry' = "resolveDomain"
    /\ closures' = Append(closures, resolveDomainClosure(domain, resolvers))
    /\ dreqs' = dreqs \o
           IF resolveDomainLoop(domain, resolvers, 0, Len(closures) + 1) = <<>> THEN <<>>
           ELSE <<resolveDomainLoop(domain, resolvers, 0, Len(closures) + 1)[1]>>
    /\ UNCHANGED <<now, coreVars, bulkVars, devents, uncaught, utilVars>>

\* lines 30-96, called by the caller of the module
resolveDomain(domain, resolvers) ==
    /\ entry = "none"
    /\ entry' = "resolveDomain"
    /\ closures' = Append(closures, resolveDomainClosure(domain, resolvers))
    /\ dreqs' = dreqs \o resolveDomainLoop(domain, resolvers, 0, Len(closures) + 1)
    /\ UNCHANGED <<now, coreVars, bulkVars, devents, uncaught, utilVars>>

\* lines 61-63 and 66-86: what a handler of request k does on event ev
\* ("TypeError" when it reads a property of undefined)
HandlerOutcome(k, ev) ==
    LET c == closures[dreqs[k].closure]
        resolver == ResolverAt(c.resolvers, c.index)
    IN  IF ev.type = "timeout"
        THEN IF resolver = undefined THEN "TypeError" ELSE "logged"
        ELSE IF ev.err # null THEN "ignored"
        ELSE IF resolver = undefined THEN "TypeError" ELSE "returned"

\* the events the transport emits on a request of resolveDomain(): the
\* handlers of lines 61-86 branch on the event type and on err only, so one
\* answer of each length below 2 stands for the populated messages
DomainEvents ==
    {TimeoutEvent} \cup { ev \in MessageEvents : Len(ev.answer) <= 1 }

\* the transport emits ev on a request sent by resolveDomain()
domainEvent(k, ev) ==
    /\ k \in 1..Len(dreqs)
    /\ uncaught = <<>>
    /\ Len(devents) < MaxEvents
    /\ devents' = Append(devents, [req |-> k, ev |-> ev, at |-> now,
                                    outcome |-> HandlerOutcome(k, ev)])
    /\ uncaught' = IF HandlerOutcome(k, ev) = "TypeError"
                   THEN Append(uncaught, "TypeError") ELSE uncaught
    /\ UNCHANGED <<now, entry, coreVars, bulkVars, closures, dreqs, utilVars>>

\* the requests that have been sent and have had no event yet
Outstanding(reqs, evs) ==
    { k \in 1..Len(reqs) : \A e \in 1..Len(evs) : evs[e].req # k }

\* lines 110-115: the requests the loop over the domains sends
RECURSIVE resolveBulkLoop(_, _, _, _)
resolveBulkLoop(domains, resolvers, iDomain, c) ==
    IF ~(iDomain < Len(domains)) THEN <<>>
    ELSE resolveDomainLoop(domains[iDomain + 1], resolvers, 0, c + iDomain)
         \o resolveBulkLoop(domains, resolvers, iDomain + 1, c)

\* lines 110-115: the results the loop over the domains pushes
RECURSIVE resolveBulkLookups(_, _, _)
resolveBulkLookups(domains, resolvers, iDomain) ==
    IF ~(iDomain < Len(domains)) THEN <<>>
    ELSE (IF resolveDomainReturn(domains[iDomain + 1], resolvers) # undefined
          THEN <<resolveDomainReturn(domains[iDomain + 1], resolvers)>>
          ELSE <<>>)
         \o resolveBulkLookups(domains, resolvers, iDomain + 1)

\* lines 100-124; dt is the time the body takes
resolveBulk(domains, resolvers, dt) ==
    /\ entry = "none"
    /\ entry' = "resolveBulk"
    /\ now' = now + dt
    /\ IF Len(domains) > 0 /\ "resolveDomain" \notin exportsObject
       THEN \* line 111, first iteration: exports.resolveDomain is undefined
            \* and calling it throws a TypeError out of resolveBulk()
            /\ bulk' = <<[domains |-> domains, resolvers |-> resolvers,
                          startTime |-> now, status |-> "thrown"]>>
            /\ response' = <<[duration |-> "unknown", lookups |-> <<>>]>>
            /\ UNCHANGED <<bulkDelivered, pendingAtCallback, closures, dreqs>>
       ELSE /\ bulk' = <<[domains |-> domains, resolvers |-> resolvers,
                          startTime |-> now, status |-> "returned"]>>
            /\ closures' = closures \o
                  [i \in 1..Len(domains) |-> resolveDomainClosure(domains[i], resolvers)]
            /\ dreqs' = dreqs \o resolveBulkLoop(domains, resolvers, 0, Len(closures) + 1)
            /\ response' = <<[duration |-> now' - now,
                              lookups |-> resolveBulkLookups(domains, resolvers, 0)]>>
            /\ bulkDelivered' = Append(bulkDelivered, response'[1])
            /\ pendingAtCallback' = Append(pendingAtCallback, Outstanding(dreqs', devents))
    /\ UNCHANGED <<coreVars, devents, uncaught, utilVars>>

\* the sequences over S of length at most n
SeqsUpTo(S, n) == UNION { [1..k -> S] : k \in 0..n }

\* ------------------------------------------- parseAnswer() called directly
\* lines 122-161, called by the caller of the module
callParseAnswer(answer, options) ==
    /\ entry = "none"
    /\ entry' = "parseAnswer"
    /\ parsed' = <<[answer |-> answer, options |-> options,
                    result |-> parseAnswer(answer, options)]>>
    /\ UNCHANGED <<now, coreVars, bulkVars, domainVars, addresses, passed, lastUnique>>

\* the records a caller may put in an answer: the transport's, a second
\* address, a record with data and address, one with neither, null, a number
ParseRecords ==
    Records \cup
    { [name |-> "cdn", address |-> "2.2.2.2"],
      [name |-> "alt", data |-> "tgt", address |-> "3.3.3.3"],
      [name |-> "bare"],
      nullRecord,
      [primitive |-> "5"] }

ParseAnswers ==
    { ArrayValue(a) : a \in SeqsUpTo(ParseRecords, MaxLen) } \cup {NullishValue, PlainValue}

ParseOptions == {GetIpAddress, GetRecursion, NullOptions, NoMode, undefined}

\* -------------------------------------------------------- isAddressUnique()
Addresses == {"1.1.1.1", "2.2.2.2", "3.3.3.3"}

\* the loop, had it stopped one element early
RECURSIVE FoundFrom_offByOne(_, _, _)
FoundFrom_offByOne(list, ipAddress, i) ==
    IF ~(i < Len(list) - 1) THEN FALSE
    ELSE IF ipAddress = list[i + 1] THEN TRUE
    ELSE FoundFrom_offByOne(list, ipAddress, i + 1)

\* lines 167-174: the loop from i on; TRUE when it finds ipAddress in the list
RECURSIVE FoundFrom(_, _, _)
FoundFrom(list, ipAddress, i) ==
    IF ~(i < Len(list)) THEN FALSE
    ELSE IF ipAddress = list[i + 1] THEN TRUE
    ELSE FoundFrom(list, ipAddress, i + 1)

\* lines 163-185
isAddressUnique(ipAddress) ==
    /\ entry \in {"none", "isAddressUnique"}
    /\ entry' = "isAddressUnique"
    /\ IF FoundFrom(addresses, ipAddress, 0)
       THEN /\ addresses' = addresses
            /\ lastUnique' = <<[ipAddress |-> ipAddress, result |-> FALSE]>>
       ELSE /\ addresses' = Append(addresses, ipAddress)
            /\ lastUnique' = <<[ipAddress |-> ipAddress, result |-> TRUE]>>
    /\ passed' = passed \cup {ipAddress}
    /\ UNCHANGED <<now, coreVars, bulkVars, domainVars, parsed>>

\* time passes while no JavaScript runs; the clock counts from the caller's call
Tick ==
    /\ entry # "none"
    /\ now < MaxTime
    /\ now' = now + 1
    /\ UNCHANGED <<entry, coreVars, bulkVars, domainVars, utilVars>>

Init ==
    /\ now = 0
    /\ entry = "none"
    /\ call = <<>>
    /\ lookupResult = <<>>
    /\ sent = <<>>
    /\ listening = {}
    /\ events = <<>>
    /\ delivered = <<>>
    /\ bulk = <<>>
    /\ response = <<>>
    /\ bulkDelivered = <<>>
    /\ pendingAtCallback = <<>>
    /\ closures = <<>>
    /\ dreqs = <<>>
    /\ devents = <<>>
    /\ uncaught = <<>>
    /\ parsed = <<>>
    /\ addresses = <<>>
    /\ passed = {}
    /\ lastUnique = <<>>

\* the caller calls resolve() on some domain and resolver
CallResolve ==
    /\ entry = "none"
    /\ \E d \in Domains, r \in Resolvers, dt \in 0..1 :
        now + dt <= MaxTime /\ resolve(d, r, dt)

\* the transport answers the request of resolve() with some message
Message ==
    /\ "message" \in listening
    /\ Len(events) < MaxEvents
    /\ \E ev \in MessageEvents : message(ev)

\* the caller calls resolveDomain() on some domain and resolvers
CallResolveDomain ==
    /\ entry = "none"
    /\ \E d \in Domains, rs \in SeqsUpTo(Resolvers, MaxResolvers) : resolveDomain(d, rs)

\* the transport emits some event on some request of resolveDomain()
DomainEvent ==
    /\ uncaught = <<>>
    /\ Len(devents) < MaxEvents
    /\ \E k \in 1..Len(dreqs), ev \in DomainEvents : domainEvent(k, ev)

\* the caller calls resolveBulk() on some domains and resolvers
CallResolveBulk ==
    /\ entry = "none"
    /\ \E ds \in SeqsUpTo(Domains, MaxDomains), rs \in SeqsUpTo(Resolvers, MaxResolvers),
       dt \in 0..1 :
        now + dt <= MaxTime /\ resolveBulk(ds, rs, dt)

\* the caller calls parseAnswer() on some answer and options
CallParseAnswer ==
    /\ entry = "none"
    /\ \E a \in ParseAnswers, o \in ParseOptions : callParseAnswer(a, o)

\* the caller calls isAddressUnique() on some address
CallIsAddressUnique ==
    /\ entry \in {"none", "isAddressUnique"}
    /\ \E a \in Addresses : isAddressUnique(a)

Next ==
    \/ Tick
    \/ CallResolve
    \/ timeout
    \/ Message
    \/ CallResolveDomain
    \/ DomainEvent
    \/ CallResolveBulk
    \/ CallParseAnswer
    \/ CallIsAddressUnique

Spec == Init /\ [][Next]_vars

\* ================================================================ claims
\* the event is a message without error and with at least one answer record
Populated(ev) == ev.type = "message" /\ ev.err = null /\ ev.isArray /\ Len(ev.answer) # 0

\* the event is a message without error and without answer records
Empty(ev) == ev.type = "message" /\ ev.err = null /\ ~Populated(ev)

\* the resolver of the resolve() call is a valid IP literal
ValidCall == entry = "resolve" /\ isIp(call[1].resolver.nameServer)

InvalidCall == entry = "resolve" /\ ~isIp(call[1].resolver.nameServer)

\* C1: one call of resolve() invokes its callback exactly once: never twice,
\* and not zero times once resolve() has returned without leaving a handler
\* behind that could still invoke it.
C1_CallbackExactlyOnce ==
    /\ Len(delivered) <= 1
    /\ (entry = "resolve" /\ listening = {}) => Len(delivered) = 1

\* the pairs (i, j) of a resolveBulk() call, 1-based
Pairs == { <<i, j>> \in (1..Len(bulk[1].domains)) \X (1..Len(bulk[1].resolvers)) : TRUE }

C3_OneEntryPerPair ==
    entry = "resolveBulk" =>
        /\ Len(bulkDelivered) >= 1
        /\ \A k \in 1..Len(bulkDelivered) :
               Len(bulkDelivered[k].lookups)
                   = Len(bulk[1].domains) * Len(bulk[1].resolvers)

\* C4: resolveBulk() does not fail as a whole: it invokes its completion
\* callback exactly once and no error propagates to its caller.
C4_BulkNeverFails ==
    entry = "resolveBulk" =>
        /\ bulk[1].status = "returned"
        /\ Len(bulkDelivered) = 1

\* C5: resolve() with a resolver that fails validation delivers to the
\* callback a result with success=false and msg="Invalid resolver IP address".
C5_InvalidResolverResult ==
    InvalidCall =>
        /\ Len(delivered) >= 1
        /\ \A k \in 1..Len(delivered) :
               /\ delivered[k].success = FALSE
               /\ delivered[k].msg = "Invalid resolver IP address"

\* C6: one call of resolve() issues exactly one transport query when the
\* nameServer is valid and none when it is invalid, and no event (timeout,
\* error, empty answer) makes it issue another one.
C6_OneQueryPerCall ==
    /\ entry # "resolve" => sent = <<>>
    /\ ValidCall => sent = <<Request(call[1].domain, call[1].resolver)>>
    /\ InvalidCall => sent = <<>>

C6_Witness ==
    /\ ValidCall
    /\ Len(sent) = 1
    /\ \E i, j \in 1..Len(events) :
           /\ events[i].type = "timeout"
           /\ events[j].type = "message" /\ (events[j].err # null \/ Empty(events[j]))

\* C7: each failing event yields a delivered result with success=false and:
\* timeout -> msg "Timeout", error ""; message with error -> msg "An error
\* occurred", error the stringified detail; message with no answer record ->
\* msg "Non-Existent Domain", error "NXDomain"; answer, ipAddress and
\* recursion null in all three.
C7_FailureFields ==
    \A k \in 1..Len(delivered) :
        ~Populated(events[k]) =>
            /\ delivered[k].success = FALSE
            /\ delivered[k].answer = null
            /\ delivered[k].ipAddress = null
            /\ delivered[k].recursion = null
            /\ events[k].type = "timeout" =>
                   delivered[k].msg = "Timeout" /\ delivered[k].error = ""
            /\ (events[k].type = "message" /\ events[k].err # null) =>
                   /\ delivered[k].msg = "An error occurred"
                   /\ delivered[k].error = StringifyValue(events[k].err)
            /\ Empty(events[k]) =>
                   /\ delivered[k].msg = "Non-Existent Domain"
                   /\ delivered[k].error = "NXDomain"

\* C8: a message without error and with at least one answer record yields a
\* delivered result with success=true, msg "Success", error "", answer the
\* serialized records, ipAddress and recursion the two parseAnswer() results;
\* and no other event yields success=true.
C8_SuccessFields ==
    \A k \in 1..Len(delivered) :
        /\ Populated(events[k]) =>
               /\ delivered[k].success = TRUE
               /\ delivered[k].msg = "Success"
               /\ delivered[k].error = ""
               /\ delivered[k].answer = StringifyArray(events[k].answer)
               /\ delivered[k].ipAddress = parseAnswer(ArrayValue(events[k].answer), GetIpAddress)
               /\ delivered[k].recursion = parseAnswer(ArrayValue(events[k].answer), GetRecursion)
        /\ delivered[k].success = TRUE => Populated(events[k])

\* the entry e of lookups is the one of the pair (domain, resolver)
IsEntryFor(e, domain, resolver) ==
    e.domain = domain /\ e.resolver = resolver.nameServer

\* C9: the lookups of the Bulk Response are in domain-major, resolver-minor
\* input order: on an input with at least one pair, the entry of
\* (domains[i], resolvers[j]) is at position i*|resolvers|+j (0-based).
C9_DomainMajorOrder ==
    (entry = "resolveBulk" /\ Pairs # {}) =>
        /\ Len(bulkDelivered) >= 1
        /\ \A k \in 1..Len(bulkDelivered) : \A p \in Pairs :
               LET pos == (p[1] - 1) * Len(bulk[1].resolvers) + p[2]
               IN  /\ pos <= Len(bulkDelivered[k].lookups)
                   /\ IsEntryFor(bulkDelivered[k].lookups[pos],
                                 bulk[1].domains[p[1]], bulk[1].resolvers[p[2]])

\* C10: a Lookup Result is never mutated after it has been handed to the
\* callback of resolve(): once delivered, no step changes the object.
C10_ImmutableOnceDelivered ==
    [][delivered # <<>> => lookupResult' = lookupResult]_vars

\* C11: resolveBulk() with an empty domains sequence, and resolveBulk() with
\* an empty resolvers sequence, deliver a Bulk Response with lookups = [].
C11_EmptyInputEmptyLookups ==
    (entry = "resolveBulk" /\ (bulk[1].domains = <<>> \/ bulk[1].resolvers = <<>>)) =>
        /\ Len(bulkDelivered) >= 1
        /\ \A k \in 1..Len(bulkDelivered) : bulkDelivered[k].lookups = <<>>

\* parseAnswer() was called on an array of items
ParsedArray == entry = "parseAnswer" /\ parsed[1].answer.kind = "array"

\* C12: parseAnswer() returns 'no_address' for every answer with zero
\* elements, in IP-address mode and in full-chain mode.
C12_EmptyAnswerNoAddress ==
    (ParsedArray /\ Len(parsed[1].answer.items) = 0
        /\ parsed[1].options \in {GetIpAddress, GetRecursion}) =>
        parsed[1].result = "no_address"

\* a well-formed record: an object {name, data?, address?}
WellFormed(rec) == "name" \in DOMAIN rec /\ DOMAIN rec \subseteq {"name", "data", "address"}

AllWellFormed(items) == \A i \in 1..Len(items) : WellFormed(items[i])

\* the positions of the records that have an address field
WithAddress(items) == { i \in 1..Len(items) : "address" \in DOMAIN items[i] }

Last(S) == CHOOSE x \in S : \A y \in S : y <= x

\* C13: for a non-empty answer of well-formed records, parseAnswer() in
\* IP-address mode returns the address of the last record that has an address
\* field, and the empty string when no record has one.
C13_LastAddressWins ==
    (ParsedArray /\ Len(parsed[1].answer.items) > 0
        /\ AllWellFormed(parsed[1].answer.items)
        /\ parsed[1].options \in {GetIpAddress, NullOptions}) =>
        parsed[1].result =
            IF WithAddress(parsed[1].answer.items) = {} THEN ""
            ELSE parsed[1].answer.items[Last(WithAddress(parsed[1].answer.items))].address

C13_Witness ==
    /\ ParsedArray
    /\ parsed[1].options = GetIpAddress
    /\ AllWellFormed(parsed[1].answer.items)
    /\ Len(parsed[1].answer.items) = 2
    /\ WithAddress(parsed[1].answer.items) = {1, 2}
    /\ parsed[1].answer.items[1].address # parsed[1].answer.items[2].address
    /\ parsed[1].result = parsed[1].answer.items[2].address

\* the line of one record in full-chain mode
ChainLine(rec) ==
    IF "data" \in DOMAIN rec THEN rec.name \o " --> " \o rec.data \o EOL
    ELSE IF "address" \in DOMAIN rec THEN rec.name \o " --> " \o rec.address \o EOL
    ELSE ""

RECURSIVE ChainLines(_)
ChainLines(items) ==
    IF items = <<>> THEN "" ELSE ChainLine(Head(items)) \o ChainLines(Tail(items))

ScanFails(answer, options) ==
    \/ options = undefined
    \/ /\ options # NoMode
       /\ \/ answer.kind = "nullish"
          \/ \E i \in 1..Len(answer.items) : answer.items[i] = nullRecord

\* C15: parseAnswer() never propagates an error: on every input it returns
\* a string, the sentinel 'error parsing answer' when the structure makes
\* the scan fail; and in resolve() every populated message is followed by the
\* callback, with the sentinel in ipAddress and recursion when a record is null.
C15_ParseNeverThrows ==
    /\ entry = "parseAnswer" =>
           /\ parsed[1].result # Thrown
           /\ ScanFails(parsed[1].answer, parsed[1].options) =>
                  parsed[1].result = "error parsing answer"
    /\ \A k \in 1..Len(events) :
           Populated(events[k]) =>
               /\ k <= Len(delivered)
               /\ (\E i \in 1..Len(events[k].answer) : events[k].answer[i] = nullRecord) =>
                      /\ delivered[k].ipAddress = "error parsing answer"
                      /\ delivered[k].recursion = "error parsing answer"

C15_Witness ==
    /\ ParsedArray
    /\ parsed[1].options = GetRecursion
    /\ Len(parsed[1].answer.items) = 2
    /\ WellFormed(parsed[1].answer.items[1])
    /\ parsed[1].answer.items[2] = nullRecord
    /\ parsed[1].result = "error parsing answer"

\* C16: the duration of the Bulk Response is stamped when all dispatched
\* queries have completed: on an input with at least one pair a response is
\* delivered, no request is outstanding when it is, and its duration is not
\* smaller than the time from the start to any event of a dispatched query.
C16_DurationCoversAllQueries ==
    (entry = "resolveBulk" /\ Pairs # {}) =>
        /\ Len(bulkDelivered) >= 1
        /\ \A k \in 1..Len(bulkDelivered) :
               /\ pendingAtCallback[k] = {}
               /\ \A e \in 1..Len(devents) :
                      devents[e].at - bulk[1].startTime <= bulkDelivered[k].duration

\* the 0-based positions of the resolvers with a valid nameServer
ValidIndexes(resolvers) ==
    { i \in 0..(Len(resolvers) - 1) : isIp(resolvers[i + 1].nameServer) }

\* C17: resolveDomain() sends no request for a resolver with an invalid
\* nameServer and exactly one, to that resolver, for every other resolver of
\* the sequence, before or after it, in sequence order.
C17_InvalidSkippedNotFatal ==
    entry = "resolveDomain" =>
        /\ \A i \in 0..(Len(closures[1].resolvers) - 1) :
               Cardinality({ q \in 1..Len(dreqs) : dreqs[q].sentFor = i })
                   = IF i \in ValidIndexes(closures[1].resolvers) THEN 1 ELSE 0
        /\ \A q \in 1..Len(dreqs) :
               dreqs[q].req = Request(closures[1].domain,
                                      closures[1].resolvers[dreqs[q].sentFor + 1])
        /\ \A q1, q2 \in 1..Len(dreqs) :
               q1 < q2 => dreqs[q1].sentFor < dreqs[q2].sentFor

C17_Witness ==
    /\ entry = "resolveDomain"
    /\ Len(closures[1].resolvers) = 3
    /\ ValidIndexes(closures[1].resolvers) = {0, 2}
    /\ Len(dreqs) = 2
    /\ dreqs[1].sentFor = 0 /\ dreqs[2].sentFor = 2

\* C18: queries are not serialized: resolveDomain() has sent the requests of
\* all n resolvers with a valid nameServer when it returns, and all n are
\* outstanding together as long as no handler has run.
C18_AllOutstandingTogether ==
    entry = "resolveDomain" =>
        /\ Len(dreqs) = Cardinality(ValidIndexes(closures[1].resolvers))
        /\ devents = <<>> => Outstanding(dreqs, devents) = 1..Len(dreqs)

C18_Witness ==
    /\ entry = "resolveDomain"
    /\ devents = <<>>
    /\ Cardinality(ValidIndexes(closures[1].resolvers)) >= 2
    /\ Cardinality(Outstanding(dreqs, devents)) >= 2

\* C19: the timeout handler and the message handler of the request sent to
\* resolvers[i] read, through resolvers[index], the resolver resolvers[i],
\* and do not fail on an undefined entry.
C19_HandlerReadsOwnResolver ==
    \A e \in 1..Len(devents) :
        (devents[e].ev.type = "timeout" \/ devents[e].ev.err = null) =>
            /\ ResolverAt(closures[dreqs[devents[e].req].closure].resolvers,
                          closures[dreqs[devents[e].req].closure].index)
                 = ResolverAt(closures[dreqs[devents[e].req].closure].resolvers,
                              dreqs[devents[e].req].sentFor)
            /\ devents[e].outcome # "TypeError"

NoDuplicates(list) == \A i, j \in 1..Len(list) : i # j => list[i] # list[j]

Range(list) == { list[i] : i \in 1..Len(list) }

\* C20: across isAddressUnique() calls the list isAddressUnique.addresses
\* never shrinks, contains no duplicate and holds exactly the addresses passed
\* so far; a call returns true iff its address was passed by no earlier call,
\* appends it then, and leaves the list unchanged when it returns false.
C20_AddressesDistinct ==
    [][ /\ Len(addresses') >= Len(addresses)
        /\ SubSeq(addresses', 1, Len(addresses)) = addresses
        /\ NoDuplicates(addresses')
        /\ Range(addresses') = passed'
        /\ <<addresses, passed, lastUnique>>' # <<addresses, passed, lastUnique>> =>
               /\ lastUnique'[1].result = (lastUnique'[1].ipAddress \notin passed)
               /\ lastUnique'[1].result = FALSE => addresses' = addresses
               /\ lastUnique'[1].result = TRUE =>
                      addresses' = Append(addresses, lastUnique'[1].ipAddress)
      ]_vars

C20_Witness ==
    /\ Len(addresses) >= 2
    /\ lastUnique # <<>>
    /\ lastUnique[1].result = FALSE
    /\ lastUnique[1].ipAddress = addresses[1]
====
